---- MODULE Spec2Model ----
(***************************************************************************)
(* A model of DMLLoss (src/dml_ops.py): the clustering / loss bookkeeping  *)
(* / batch sampling engine of the magnet loss, nearest-centroid prediction *)
(* and the cost, variance and accuracy steps of the loss computation.      *)
(*                                                                         *)
(* Examples are numbered 0..NumExamples-1 and clusters 0..C*k-1, as numpy  *)
(* numbers them.  Embeddings have one feature, so a centroid is one        *)
(* integer coordinate.  Losses are non-negative integers; a cluster loss   *)
(* (a mean) is an exact fraction <<numerator, denominator>> in lowest      *)
(* terms.  The k-means routine is an external black box: any k centres     *)
(* and any local cluster index in [0, k) per example.                      *)
(***************************************************************************)
EXTENDS Integers, Sequences, FiniteSets

VARIABLES
    labels,               \* self.labels: example -> original label value
    unique_classes,       \* self.unique_classes: class index -> label value
    num_classes,          \* self.num_classes
    k, m, d,              \* self.k, self.m, self.d
    cluster_classes,      \* self.cluster_classes: cluster -> class index
    centroids,            \* self.centroids: None or cluster -> coordinate
    assignments,          \* self.assignments: example -> cluster
    cluster_assignments,  \* self.cluster_assignments: dict cluster -> members
    example_losses,       \* self.example_losses: None or example -> loss
    cluster_losses,       \* self.cluster_losses: None or cluster -> fraction
    has_loss,             \* self.has_loss: None or example -> BOOLEAN
    last                  \* the last call made and what it returned or raised

vars == <<labels, unique_classes, num_classes, k, m, d, cluster_classes,
          centroids, assignments,
          cluster_assignments, example_losses, cluster_losses, has_loss, last>>

config == <<labels, unique_classes, num_classes, k, m, d, cluster_classes>>
cluster_state == <<centroids, assignments, cluster_assignments>>
loss_state == <<example_losses, cluster_losses, has_loss>>

----------------------------------------------------------------------------
(* Bounds of the model *)

NumExamples == 3     \* size of the training set (one more where k-means needs it)
MaxK == 2            \* k ranges over 1..MaxK
MaxM == 2            \* m ranges over 1..MaxM
MaxD == 2            \* d ranges over 1..MaxD
MaxCoord == 1        \* centroid coordinates range over 0..MaxCoord
MaxLoss == 2         \* recorded losses range over 0..MaxLoss
MaxIdx == 2          \* a record call names 1..MaxIdx examples
MaxReps == 2         \* a predict call gets 1..MaxReps embeddings

LabelValues == {2, 5, 7}              \* the original label values in use
Examples == DOMAIN labels               \* examples are numbered from 0
Coords == 0 .. MaxCoord
Losses == 0 .. MaxLoss
Reps == 0 .. (MaxCoord + 1)             \* embeddings: one past the centroids

----------------------------------------------------------------------------
(* Values *)

None == <<>>         \* Python's None; also the empty dict {}
Inf == -1            \* np.inf as an entry of sq_dists (distances are >= 0)

\* a <= b on distances that may be np.inf
LeqInf(a, b) == IF b = Inf THEN TRUE ELSE IF a = Inf THEN FALSE ELSE a <= b

RECURSIVE GCD(_, _)
GCD(a, b) == IF b = 0 THEN a ELSE GCD(b, a % b)

\* the fraction n/c (c > 0) in lowest terms
Frac(n, c) == LET g == GCD(n, c) IN <<n \div g, c \div g>>

Zero == <<0, 1>>

FracAdd(a, b) == Frac(a[1] * b[2] + b[1] * a[2], a[2] * b[2])

\* a / b as numpy divides floats: 0/0 is NaN, written <<0, 0>>
FracDiv(a, b) ==
    IF b[1] = 0 THEN <<a[1], 0>> ELSE Frac(a[1] * b[2], a[2] * b[1])

IsNaN(q) == q[2] = 0

RECURSIVE SumOver(_, _)
SumOver(f, S) ==
    IF S = {} THEN 0
    ELSE LET x == CHOOSE x \in S : TRUE IN f[x] + SumOver(f, S \ {x})

----------------------------------------------------------------------------
(* __init__ *)

\* np.unique(labels): the distinct label values in ascending order
NpUnique(ls) ==
    LET vals == {ls[i] : i \in DOMAIN ls}
    IN [c \in 0 .. (Cardinality(vals) - 1) |->
            CHOOSE v \in vals : Cardinality({w \in vals : w < v}) = c]

\* np.repeat(range(n), reps)
NpRepeatRange(n, reps) == [j \in 0 .. (n * reps - 1) |-> j \div reps]

\* DMLLoss(labels, k, m, d)
Construct(ls, k0, m0, d0) ==
    /\ labels = ls
    /\ unique_classes = NpUnique(ls)
    /\ num_classes = Cardinality(DOMAIN NpUnique(ls))
    /\ k = k0
    /\ m = m0
    /\ d = d0
    /\ centroids = None
    /\ assignments = [i \in DOMAIN ls |-> 0]
    /\ cluster_assignments = None
    /\ cluster_classes = NpRepeatRange(Cardinality(DOMAIN NpUnique(ls)), k0)
    /\ example_losses = None
    /\ cluster_losses = None
    /\ has_loss = None
    /\ last = [op |-> "__init__", kind |-> "ok"]

Classes == 0 .. (num_classes - 1)
Clusters == 0 .. (num_classes * k - 1)

----------------------------------------------------------------------------
(* get_cluster_ind, get_class_ind *)

get_cluster_ind(c, i) == c * k + i

\* c / self.k is a true division: the quotient as a fraction
get_class_ind(c) == <<c, k>>

\* int(q) of a non-negative fraction q
IntOf(q) == q[1] \div q[2]

----------------------------------------------------------------------------
(* update_clusters *)

\* self.labels == self.unique_classes[c]
class_mask(c) == {i \in Examples : labels[i] = unique_classes[c]}

\* KMeans(n_clusters=k).fit raises ValueError on fewer samples than clusters
KMeansFails(c) == Cardinality(class_mask(c)) < k

\* the classes the loop of update_clusters gets through before fit raises
ClassesDone == {c \in Classes : \A f \in Classes : KMeansFails(f) => c < f}

\* the slice of the centroid table that class c owns
ClassSlice(c) == get_cluster_ind(c, 0) .. (get_cluster_ind(c, k) - 1)

\* the centroid table after the loop: class c's slice holds its k centres
StoreCentroids(done, centers) ==
    LET table == IF centroids = None THEN [j \in Clusters |-> 0] ELSE centroids
    IN [j \in Clusters |-> IF j \in DOMAIN centers THEN centers[j] ELSE table[j]]

\* StoreAssignments without the class offset of get_cluster_ind
StoreAssignmentsLocal(class_of, predict) ==
    [i \in Examples |-> IF i \in DOMAIN predict THEN predict[i] ELSE assignments[i]]

\* the assignments after the loop: global index of the predicted local one
StoreAssignments(class_of, predict) ==
    [i \in Examples |->
        IF i \in DOMAIN predict
        THEN get_cluster_ind(class_of[i], predict[i])
        ELSE assignments[i]]

\* ReverseMap built from the assignments as they were before the call
ReverseMapStale(asg) ==
    [cluster \in 0 .. (k * num_classes - 1) |->
        {i \in Examples : assignments[i] = cluster}]

\* cluster -> np.flatnonzero(assignments == cluster)
ReverseMap(asg) ==
    [cluster \in 0 .. (k * num_classes - 1) |-> {i \in Examples : asg[i] = cluster}]

\* the class index of every example of the classes in done
ClassOf(done) ==
    [i \in UNION {class_mask(c) : c \in done} |->
        CHOOSE c \in done : i \in class_mask(c)]

\* update_clusters that also drops the loss arrays
update_clusters_reset(CenterSet) ==
    \E done \in {ClassesDone} :
    \E class_of \in {ClassOf(done)} :
    \E slices \in {UNION {ClassSlice(c) : c \in done}} :
    \E completes \in {done = Classes} :
    \E centers \in [slices -> CenterSet] :
    \E predict_ \in [DOMAIN class_of -> 0 .. (k - 1)] :
    \E asg \in {StoreAssignments(class_of, predict_)} :
        /\ centroids' = StoreCentroids(done, centers)
        /\ assignments' = asg
        /\ cluster_assignments' =
               IF completes THEN ReverseMap(asg) ELSE cluster_assignments
        /\ last' = IF completes
                   THEN [op |-> "update_clusters", kind |-> "ok"]
                   ELSE [op |-> "update_clusters", kind |-> "ValueError",
                         line |-> 41]
        /\ example_losses' = None
        /\ cluster_losses' = None
        /\ has_loss' = None
        /\ UNCHANGED config

\* update_clusters(rep_data): for the classes it gets through, k-means
\* answers with centres from CenterSet and a local index per example
update_clusters(CenterSet) ==
    \E done \in {ClassesDone} :
    \E class_of \in {ClassOf(done)} :
    \E slices \in {UNION {ClassSlice(c) : c \in done}} :
    \E completes \in {done = Classes} :
    \E centers \in [slices -> CenterSet] :
    \E predict \in [DOMAIN class_of -> 0 .. (k - 1)] :
    \E asg \in {StoreAssignments(class_of, predict)} :
        /\ centroids' = StoreCentroids(done, centers)
        /\ assignments' = asg
        /\ cluster_assignments' =
               IF completes THEN ReverseMap(asg) ELSE cluster_assignments
        /\ last' = IF completes
                   THEN [op |-> "update_clusters", kind |-> "ok"]
                   ELSE [op |-> "update_clusters", kind |-> "ValueError",
                         line |-> 41]
        /\ UNCHANGED <<config, loss_state>>

----------------------------------------------------------------------------
(* update_losses *)

\* a[indexes] = values with numpy's order of writes: the last one wins
RECURSIVE NpPut(_, _, _)
NpPut(a, indexes, values) ==
    IF indexes = <<>> THEN a
    ELSE NpPut([a EXCEPT ![Head(indexes)] = Head(values)],
               Tail(indexes), Tail(values))

\* the cast of a loss to the bool dtype of has_loss
AsBool(x) == x # 0

HasLossValues(losses) == [j \in DOMAIN losses |-> AsBool(losses[j])]

\* ClusterMean over every example of the cluster, measured or not
ClusterMeanAll(el, hl, asg, cluster) ==
    LET cluster_inds == {i \in Examples : asg[i] = cluster}
    IN IF Cardinality(cluster_inds) > 0
       THEN Frac(SumOver(el, cluster_inds), Cardinality(cluster_inds))
       ELSE Zero

\* np.mean of the losses of the cluster's examples that have a loss, or 0
ClusterMean(el, hl, asg, cluster) ==
    LET cluster_inds == {i \in Examples : asg[i] = cluster}
        measured == {i \in cluster_inds : hl[i]}
    IN IF Cardinality(measured) > 0
       THEN Frac(SumOver(el, measured), Cardinality(measured))
       ELSE Zero

\* only the cluster of the first index
AffectedFirst(indexes) == {assignments[indexes[1]]}

\* every cluster: a full recompute
AffectedAll(indexes) == Clusters

\* np.unique(self.assignments[indexes])
AffectedClusters(indexes) == {assignments[indexes[j]] : j \in DOMAIN indexes}

\* the three arrays as the lazy allocation leaves them
Allocated ==
    IF example_losses = None
    THEN [el |-> [i \in Examples |-> 0],
          cl |-> [c \in Clusters |-> Zero],
          hl |-> [i \in Examples |-> FALSE]]
    ELSE [el |-> example_losses, cl |-> cluster_losses, hl |-> has_loss]

update_losses(indexes, losses) ==
    \E a \in {Allocated} :
    \E el \in {NpPut(a.el, indexes, losses)} :
    \E hl \in {NpPut(a.hl, indexes, HasLossValues(losses))} :
    \E clusters \in {AffectedClusters(indexes)} :
        /\ example_losses' = el
        /\ has_loss' = hl
        /\ cluster_losses' =
               [c \in Clusters |->
                   IF c \in clusters
                   THEN ClusterMean(el, hl, assignments, c) ELSE a.cl[c]]
        /\ last' = [op |-> "update_losses", kind |-> "ok",
                    indexes |-> indexes, losses |-> losses]
        /\ UNCHANGED <<config, cluster_state>>

IndexSeqs(maxlen) == UNION {[1 .. n -> Examples] : n \in 1 .. maxlen}

\* a record call with 1..maxlen examples and losses from LossSet
record(LossSet, maxlen) ==
    \E indexes \in IndexSeqs(maxlen) :
        \E losses \in [DOMAIN indexes -> LossSet] : update_losses(indexes, losses)

----------------------------------------------------------------------------
(* gen_batch *)

RECURSIVE FracSum(_, _)
\* np.sum(a) over the index set S
FracSum(a, S) ==
    IF S = {} THEN Zero
    ELSE LET x == CHOOSE x \in S : TRUE IN FracAdd(a[x], FracSum(a, S \ {x}))

\* p = self.cluster_losses / np.sum(self.cluster_losses)
SeedProbabilities ==
    LET total == FracSum(cluster_losses, Clusters)
    IN [c \in Clusters |-> FracDiv(cluster_losses[c], total)]

\* np.random.choice(n, p=p) raises ValueError when p holds a NaN
ChoiceRaises(p) == \E c \in DOMAIN p : IsNaN(p[c])

\* np.random.choice(n) that ignores the weights p
ChoiceValuesUniform(p) == DOMAIN p

\* the values np.random.choice(n, p=p) can return
ChoiceValues(p) == {c \in DOMAIN p : p[c][1] > 0}

\* the seed clusters the first step of gen_batch can draw
SeedClusters ==
    IF cluster_losses # None THEN ChoiceValues(SeedProbabilities) ELSE Clusters

\* sq_dists with the float of get_class_ind compared as it is, without int()
sq_dists_float(seed_cluster) ==
    [c \in Clusters |->
        IF get_class_ind(seed_cluster)[1]
               = cluster_classes[c] * get_class_ind(seed_cluster)[2]
        THEN Inf
        ELSE (centroids[seed_cluster] - centroids[c])
                 * (centroids[seed_cluster] - centroids[c])]

\* sq_dists after the same-class entries are set to np.inf
sq_dists(seed_cluster) ==
    [c \in Clusters |->
        IF IntOf(get_class_ind(seed_cluster)) = cluster_classes[c]
        THEN Inf
        ELSE (centroids[seed_cluster] - centroids[c])
                 * (centroids[seed_cluster] - centroids[c])]

\* np.argpartition(a, kth)[:kth]: kth indices of smallest entries, any order
NpArgpartitionHead(a, kth) ==
    {s \in [1 .. kth -> DOMAIN a] :
        /\ \A i, j \in 1 .. kth : i # j => s[i] # s[j]
        /\ \A i \in 1 .. kth :
               \A y \in DOMAIN a :
                   (\A j \in 1 .. kth : s[j] # y) => LeqInf(a[s[i]], a[y])}

\* DrawBlocks that draws every block from the first (the seed) cluster
DrawBlocksSeed(clusters) ==
    IF clusters = <<>> THEN {<<>>}
    ELSE [1 .. (Len(clusters) * d) -> cluster_assignments[Head(clusters)]]

\* the ways to draw d members, with replacement, from each cluster in turn
RECURSIVE DrawBlocks(_)
DrawBlocks(clusters) ==
    IF clusters = <<>> THEN {<<>>}
    ELSE {x \o rest : x \in [1 .. d -> cluster_assignments[Head(clusters)]],
                      rest \in DrawBlocks(Tail(clusters))}

\* BatchClassInds that hands back the class indexes as they are
RECURSIVE BatchClassIndsRaw(_, _, _)
BatchClassIndsRaw(class_inds, inds_map, class_count) ==
    IF class_inds = <<>> THEN <<>>
    ELSE <<Head(class_inds)>> \o
         BatchClassIndsRaw(Tail(class_inds), inds_map, class_count)

\* the loop that numbers the classes of the batch in first-seen order
RECURSIVE BatchClassInds(_, _, _)
BatchClassInds(class_inds, inds_map, class_count) ==
    IF class_inds = <<>> THEN <<>>
    ELSE LET c == Head(class_inds)
         IN IF c \notin DOMAIN inds_map
            THEN <<class_count>> \o
                 BatchClassInds(Tail(class_inds),
                                [x \in DOMAIN inds_map \cup {c} |->
                                    IF x = c THEN class_count ELSE inds_map[x]],
                                class_count + 1)
            ELSE <<inds_map[c]>> \o
                 BatchClassInds(Tail(class_inds), inds_map, class_count)

\* np.tile(a, reps) in the place of np.repeat
NpTile(a, reps) == [p \in 1 .. (Len(a) * reps) |-> a[((p - 1) % Len(a)) + 1]]

\* np.repeat(a, reps)
NpRepeat(a, reps) == [p \in 1 .. (Len(a) * reps) |-> a[((p - 1) \div reps) + 1]]

\* an exception of gen_batch and the source line that raises it
Raised(error, line) == [op |-> "gen_batch", kind |-> error, line |-> line]

Returned(clusters, batch_indexes) ==
    [op |-> "gen_batch", kind |-> "ok",
     clusters |-> clusters,
     batch_indexes |-> batch_indexes,
     labels |-> NpRepeat(BatchClassInds([i \in 1 .. Len(clusters) |->
                                            cluster_classes[clusters[i]]],
                                        <<>>, 0), d)]

\* what gen_batch does once the m clusters of the batch are chosen
Draws(clusters) ==
    IF \E i \in 1 .. Len(clusters) : clusters[i] \notin DOMAIN cluster_assignments
    THEN {Raised("KeyError", 115)}
    ELSE IF \E i \in 1 .. Len(clusters) : cluster_assignments[clusters[i]] = {}
    THEN {Raised("ValueError", 115)}
    ELSE {Returned(clusters, b) : b \in DrawBlocks(clusters)}

\* Outcomes that answers with an empty batch while the centroids are unallocated
OutcomesSilent ==
    IF cluster_losses # None /\ ChoiceRaises(SeedProbabilities)
    THEN {Raised("ValueError", 97)}
    ELSE IF centroids = None
    THEN {Returned(<<>>, <<>>)}
    ELSE IF m - 1 >= Cardinality(Clusters)
    THEN {Raised("ValueError", 109)}
    ELSE UNION {UNION {Draws(<<seed>> \o imp) :
                          imp \in NpArgpartitionHead(sq_dists(seed), m - 1)} :
                   seed \in SeedClusters}

\* every outcome of a gen_batch call in the current state
Outcomes ==
    IF cluster_losses # None /\ ChoiceRaises(SeedProbabilities)
    THEN {Raised("ValueError", 97)}
    ELSE IF centroids = None
    THEN {Raised("TypeError", 102)}
    ELSE IF m - 1 >= Cardinality(Clusters)
    THEN {Raised("ValueError", 109)}
    ELSE UNION {UNION {Draws(<<seed>> \o imp) :
                          imp \in NpArgpartitionHead(sq_dists(seed), m - 1)} :
                   seed \in SeedClusters}

\* gen_batch whose np.inf mask is written into the stored centroids
gen_batch_masking ==
    /\ \E outcome \in Outcomes :
           /\ last' = outcome
           /\ centroids' =
                  IF outcome.kind = "ok"
                  THEN [c \in Clusters |->
                           IF cluster_classes[c] = cluster_classes[outcome.clusters[1]]
                           THEN Inf ELSE centroids[c]]
                  ELSE centroids
    /\ UNCHANGED <<config, assignments, cluster_assignments, loss_state>>

gen_batch ==
    /\ \E outcome \in Outcomes : last' = outcome
    /\ UNCHANGED <<config, cluster_state, loss_state>>

----------------------------------------------------------------------------
(* predict, magnet_dist *)

\* magnet_dist(means, reps): squared distance of every rep to every mean
magnet_dist(means, reps) ==
    [i \in DOMAIN reps |->
        [j \in DOMAIN means |-> (means[j] - reps[i]) * (means[j] - reps[i])]]

\* np.argmax in the place of np.argmin
NpArgmax(row) ==
    CHOOSE j \in DOMAIN row :
        /\ \A j2 \in DOMAIN row : row[j2] <= row[j]
        /\ \A j2 \in DOMAIN row : row[j2] = row[j] => j <= j2

\* np.argmin of one row: the first index of a smallest entry
NpArgmin(row) ==
    CHOOSE j \in DOMAIN row :
        /\ \A j2 \in DOMAIN row : row[j] <= row[j2]
        /\ \A j2 \in DOMAIN row : row[j2] = row[j] => j <= j2

\* the array predict returns: nearest cluster -> class index -> label value
Preds(rep_data) ==
    LET sc == magnet_dist(centroids, rep_data)
    IN [p \in DOMAIN rep_data |->
           unique_classes[cluster_classes[NpArgmin(sc[p])]]]

\* predict(rep_data); None - tensor raises TypeError in magnet_dist
predict(rep_data) ==
    /\ last' = IF centroids = None
               THEN [op |-> "predict", kind |-> "TypeError", line |-> 286]
               ELSE [op |-> "predict", kind |-> "ok",
                     rep_data |-> rep_data, preds |-> Preds(rep_data)]
    /\ UNCHANGED <<config, cluster_state, loss_state>>

RepSeqs(maxlen) == UNION {[1 .. n -> Reps] : n \in 1 .. maxlen}

----------------------------------------------------------------------------
(* dml_loss, minibatch_dml_loss, euclidean_distance *)

\* euclidean_distance(self.centroids, r.unsqueeze(1)): example x cluster
euclidean_distance(x, y) ==
    [i \in DOMAIN y |-> [j \in DOMAIN x |-> (x[j] - y[i]) * (x[j] - y[i])]]

SeqRange(a) == {a[j] : j \in DOMAIN a}

\* the largest entry of a table of costs
CostMax(sample_costs) ==
    CHOOSE v \in UNION {SeqRange(sample_costs[i]) : i \in DOMAIN sample_costs} :
        \A i \in DOMAIN sample_costs : \A j \in DOMAIN sample_costs[i] :
            sample_costs[i][j] <= v

\* the smallest member of a non-empty set of integers
SetMin(S) == CHOOSE v \in S : \A w \in S : v <= w

\* lines 218-226: row i starts as 1.5 * max, takes sample_costs[i, j] where
\* self.cluster_classes[j] == classes[i], and is reduced to its minimum
IntraClusterCosts(sample_costs, classes) ==
    [i \in DOMAIN sample_costs |->
        Frac(SetMin({IF cluster_classes[j] = classes[i]
                     THEN 2 * sample_costs[i][j]
                     ELSE 3 * CostMax(sample_costs) :
                         j \in DOMAIN sample_costs[i]}), 2)]

\* lines 229-230: intra_cluster_costs.sum() / float(N - 1); a tensor
\* divided by 0.0 is inf or nan, written with denominator 0
Variance(intra_cluster_costs) ==
    FracDiv(FracSum(intra_cluster_costs, DOMAIN intra_cluster_costs),
            <<Len(intra_cluster_costs) - 1, 1>>)

\* sample_costs.min(1): for each row the index of a smallest entry; which
\* one among equal entries is not fixed
TorchArgmins(sample_costs) ==
    {preds \in [DOMAIN sample_costs -> Clusters] :
        \A i \in DOMAIN sample_costs : \A j \in Clusters :
            sample_costs[i][preds[i]] <= sample_costs[i][j]}

\* torch.eq(classes, preds).float().mean()
Accuracy(classes, preds) ==
    Frac(Cardinality({i \in DOMAIN classes : classes[i] = preds[i]}),
         Len(classes))

\* what dml_loss computes from the batch features r and the class labels;
\* the losses themselves (exponentials of these costs) are not represented
dml_loss(r, classes, preds) ==
    LET sample_costs == euclidean_distance(centroids, r)
        intra_cluster_costs == IntraClusterCosts(sample_costs, classes)
    IN [op |-> "minibatch_dml_loss", kind |-> "ok",
        batch_indexes |-> last.batch_indexes,
        r |-> r, classes |-> classes,
        intra_cluster_costs |-> intra_cluster_costs,
        variance |-> Variance(intra_cluster_costs),
        preds |-> preds,
        acc |-> Accuracy(classes, preds)]

\* minibatch_dml_loss(r, classes, m, d) on the batch gen_batch just returned:
\* classes are the labels it returned, r any features for its m*d examples
minibatch_dml_loss(r) ==
    /\ last.op = "gen_batch" /\ last.kind = "ok"
    /\ Len(r) = m * d
    /\ \E preds \in TorchArgmins(euclidean_distance(centroids, r)) :
           last' = dml_loss(r, last.labels, preds)
    /\ UNCHANGED <<config, cluster_state, loss_state>>

----------------------------------------------------------------------------
(* Specifications *)

\* The label vectors of n examples.  Label values are only compared and
\* sorted, so one vector stands for each way of splitting the examples into
\* classes: the values first appear in the order 5, 2, 7, which is not their
\* sorted order.
LabelVectors(n) ==
    {ls \in [0 .. (n - 1) -> LabelValues] :
        /\ ls[0] = 5
        /\ \A i \in 1 .. (n - 1) : ls[i] = 2 => \E j \in 0 .. (i - 1) : ls[j] = 5
        /\ \A i \in 1 .. (n - 1) : ls[i] = 7 => \E j \in 0 .. (i - 1) : ls[j] = 2}

\* Every call in any order; losses are 0 or MaxLoss, one example per record.
Init ==
    \E ls \in LabelVectors(NumExamples) :
        \E k0 \in 1 .. MaxK, m0 \in 1 .. MaxM, d0 \in 1 .. MaxD :
            Construct(ls, k0, m0, d0)

Next ==
    \/ update_clusters(Coords)
    \/ record({0, MaxLoss}, 1)
    \/ gen_batch

Spec == Init /\ [][Next]_vars

\* The loss bookkeeping: all losses, several examples per record; batches of
\* one example and an embedding that is constant, so that centroids and
\* batches do not multiply the loss states.
InitLoss ==
    \E ls \in LabelVectors(NumExamples), k0 \in 1 .. MaxK : Construct(ls, k0, 1, 1)

NextLoss ==
    \/ update_clusters({0})
    \/ record(Losses, MaxIdx)
    \/ gen_batch

SpecLoss == InitLoss /\ [][NextLoss]_vars

\* Clustering and sampling before the first loss is recorded, on a training
\* set large enough for two classes of k = MaxK clusters each.
InitCluster ==
    \E ls \in LabelVectors(NumExamples + 1) :
        \E k0 \in 1 .. MaxK, m0 \in 1 .. MaxM, d0 \in 1 .. MaxD :
            Construct(ls, k0, m0, d0)

NextCluster ==
    \/ update_clusters(Coords)
    \/ gen_batch

SpecCluster == InitCluster /\ [][NextCluster]_vars

\* Batches of m = MaxM + 1 clusters drawn from a training set large enough
\* for two classes of k = MaxK clusters each, or for three classes.
InitBatch ==
    \E ls \in LabelVectors(NumExamples + 1) :
        \E k0 \in 1 .. MaxK, d0 \in 1 .. MaxD :
            Construct(ls, k0, MaxM + 1, d0)

NextBatch ==
    \/ update_clusters(Coords)
    \/ gen_batch

SpecBatch == InitBatch /\ [][NextBatch]_vars

\* Nearest-centroid prediction after any sequence of recluster calls.
InitPredict ==
    \E ls \in LabelVectors(NumExamples + 1), k0 \in 1 .. MaxK :
        Construct(ls, k0, 1, 1)

NextPredict ==
    \/ update_clusters(Coords)
    \/ \E rep_data \in RepSeqs(MaxReps) : predict(rep_data)

SpecPredict == InitPredict /\ [][NextPredict]_vars

\* Sampling a batch of one example per cluster (d = 1) and computing its
\* loss statistics, for any features of its examples.
InitCompute ==
    \E ls \in LabelVectors(NumExamples) :
        \E k0 \in 1 .. MaxK, m0 \in 1 .. MaxM :
            Construct(ls, k0, m0, 1)

NextCompute ==
    \/ update_clusters(Coords)
    \/ gen_batch
    \/ \E r \in [1 .. (m * d) -> Reps] : minibatch_dml_loss(r)

SpecCompute == InitCompute /\ [][NextCompute]_vars

----------------------------------------------------------------------------
(* Claims *)

Completed(op) == last.op = op /\ last.kind = "ok"

\* the class index of example i: the c with unique_classes[c] = labels[i]
TrueClass(i) == CHOOSE c \in Classes : unique_classes[c] = labels[i]

\* C1: after every update_clusters call that completes, every example is
\* assigned to a cluster of its own class:
\* cluster_classes[assignments[i]] is the class index of labels[i].
C1_AssignedToOwnClass ==
    Completed("update_clusters") =>
        \A i \in Examples :
            /\ assignments[i] \in DOMAIN cluster_classes
            /\ cluster_classes[assignments[i]] = TrueClass(i)

\* a completed recluster of two classes with k = 2 that uses the last cluster
C1_Witness ==
    /\ Completed("update_clusters")
    /\ num_classes = 2 /\ k = 2
    /\ \E i, j \in Examples : assignments[i] = 3 /\ assignments[j] = 1

\* the reverse index is the exact inverse of the assignment
ReverseIsInverse ==
    \A c \in Clusters : \A i \in Examples :
        (c \in DOMAIN cluster_assignments /\ i \in cluster_assignments[c])
            <=> assignments[i] = c

C3_BatchShape ==
    Completed("gen_batch") =>
        /\ Len(last.batch_indexes) = m * d
        /\ Len(last.labels) = m * d
        /\ \A b \in 0 .. (m - 1) : \A p, q \in (b * d + 1) .. (b * d + d) :
               last.labels[p] = last.labels[q]

\* a batch of two blocks of two, one drawn from a cluster of a single example
C3_Witness ==
    /\ Completed("gen_batch")
    /\ m = 2 /\ d = 2
    /\ Cardinality(cluster_assignments[last.clusters[2]]) = 1
    /\ last.labels[1] # last.labels[3]

\* the clusters of a class other than the class of cluster seed
Foreign(seed) == {c \in Clusters : cluster_classes[c] # cluster_classes[seed]}

\* C4: when at least m-1 clusters of other classes exist, no impostor of a
\* returned batch has the class of the seed cluster.
C4_ImpostorsForeign ==
    (Completed("gen_batch") /\ Cardinality(Foreign(last.clusters[1])) >= m - 1) =>
        \A j \in 2 .. Len(last.clusters) :
            cluster_classes[last.clusters[j]] # cluster_classes[last.clusters[1]]

\* a batch whose seed has a sibling cluster that is strictly nearer to it
\* than the impostor that was selected
C4_Witness ==
    /\ Completed("gen_batch")
    /\ k = 2 /\ m = 2
    /\ last.clusters[2] \in Foreign(last.clusters[1])
    /\ \E s \in Clusters \ {last.clusters[1]} :
           /\ cluster_classes[s] = cluster_classes[last.clusters[1]]
           /\ centroids[s] = centroids[last.clusters[1]]
           /\ centroids[last.clusters[2]] # centroids[last.clusters[1]]

Range(seq) == {seq[j] : j \in DOMAIN seq}

\* the loss a record call supplies for example i: the last one it names
Supplied(indexes, losses, i) ==
    LET j == CHOOSE j \in DOMAIN indexes :
                 indexes[j] = i /\ \A j2 \in DOMAIN indexes : indexes[j2] = i => j2 <= j
    IN losses[j]

\* HasLoss, ExampleLoss and ClusterLoss; before the arrays are allocated no
\* example has a loss and every cluster loss is 0
HasLossOf(i) == has_loss # None /\ has_loss[i]
ExampleLossOf(i) == IF example_losses = None THEN 0 ELSE example_losses[i]
ClusterLossOf(c) == IF cluster_losses = None THEN Zero ELSE cluster_losses[c]

\* C5 as claimed: after record(indices, losses) every index has HasLoss true
\* and ExampleLoss equal to its supplied loss, whatever that loss is, and an
\* example has HasLoss true only if a record call has named it.
C5_HasLossIffRecorded ==
    [][last'.op = "update_losses" =>
          /\ \A i \in Range(last'.indexes) :
                 /\ has_loss'[i] = TRUE
                 /\ example_losses'[i] = Supplied(last'.indexes, last'.losses, i)
          /\ \A i \in Examples \ Range(last'.indexes) :
                 has_loss'[i] = HasLossOf(i)]_vars

\* the clusters that own at least one of the examples
Owners(indexes) == {assignments[i] : i \in Range(indexes)}

\* cluster_losses[c] is the mean of example_losses over the examples now
\* assigned to c that have has_loss, and 0 when there is none
MeanMatches(c) ==
    LET measured == {i \in Examples : assignments[i] = c /\ has_loss[i]}
        q == cluster_losses[c]
    IN IF measured = {} THEN q = <<0, 1>>
       ELSE /\ q[2] > 0
            /\ q[1] * Cardinality(measured) = SumOver(example_losses, measured) * q[2]

FromScratch == cluster_losses # None /\ \A c \in Clusters : MeanMatches(c)

\* C6: while the assignment is fixed, record keeps the cluster losses equal
\* to a from-scratch recomputation: if they are unallocated or equal to it
\* before a record call, they are equal to it after the call.
C6_IncrementalIsFromScratch ==
    [][(last'.op = "update_losses" /\ assignments' = assignments
           /\ (cluster_losses = None \/ FromScratch)) => FromScratch']_vars

\* after a record call: a cluster whose loss is a proper fraction (a mean of
\* different losses) beside a cluster none of whose members has a loss
C6_Witness ==
    /\ last.op = "update_losses"
    /\ FromScratch
    /\ \E c1, c2 \in Clusters :
           /\ cluster_losses[c1][2] = 2
           /\ cluster_losses[c2] = Zero
           /\ cluster_assignments # None /\ cluster_assignments[c2] # {}

\* C7 as claimed: after a recluster followed by the next record call, every
\* cluster loss is the mean over the examples currently assigned to it.
C7_StaleDiscarded ==
    [][(Completed("update_clusters") /\ last'.op = "update_losses")
           => FromScratch']_vars

\* C7 as amended: after a recluster followed by the next record call, every
\* cluster that owns at least one of the recorded examples has the mean over
\* the examples currently assigned to it, and every other cluster keeps the
\* loss it had, which may have been computed from the old assignment.
C7_OwnersRecomputed ==
    [][(Completed("update_clusters") /\ last'.op = "update_losses") =>
          /\ \A c \in Owners(last'.indexes) : MeanMatches(c)'
          /\ \A c \in Clusters \ Owners(last'.indexes) :
                 cluster_losses'[c] = ClusterLossOf(c)]_vars

\* after a record call that followed a recluster: one cluster was recomputed
\* to a loss above 0 and another still has a loss that is not its mean
C7_Witness ==
    /\ last.op = "update_losses"
    /\ cluster_assignments # None
    /\ \E c \in Owners(last.indexes) : cluster_losses[c] # Zero /\ MeanMatches(c)
    /\ \E c \in Clusters \ Owners(last.indexes) : ~MeanMatches(c)

\* C8: record changes only what it names: the loss of a cluster that owns
\* none of the examples, and the loss and flag of an example that is not
\* named, are what they were (0 and false before the arrays exist), and
\* the assignment, the reverse index and the centroids are unchanged.
C8_RecordFrame ==
    [][last'.op = "update_losses" =>
          /\ \A c \in Clusters \ Owners(last'.indexes) :
                 cluster_losses'[c] = ClusterLossOf(c)
          /\ \A i \in Examples \ Range(last'.indexes) :
                 /\ example_losses'[i] = ExampleLossOf(i)
                 /\ has_loss'[i] = HasLossOf(i)
          /\ assignments' = assignments
          /\ cluster_assignments' = cluster_assignments
          /\ centroids' = centroids]_vars

\* after a record call: a cluster that owns none of the named examples has a
\* loss that is not the mean of its present members, so it was left alone,
\* and an example that was not named has a loss
C8_Witness ==
    /\ last.op = "update_losses"
    /\ \E c \in Clusters \ Owners(last.indexes) :
           cluster_losses[c] # Zero /\ ~MeanMatches(c)
    /\ \E i \in Examples \ Range(last.indexes) : has_loss[i]

\* C9 as claimed: when the cluster losses are allocated and all 0, gen_batch
\* (called after a completed recluster) does not fail in choosing the seed.
C9_ZeroLossesNoSeedFailure ==
    (last.op = "gen_batch" /\ cluster_assignments # None
         /\ cluster_losses # None
         /\ \A c \in Clusters : cluster_losses[c] = Zero)
        => ~(last.kind = "ValueError" /\ last.line = 97)

\* C10 as claimed: when fewer than m-1 clusters of a class other than the
\* seed's exist, gen_batch raises and returns no batch.
C10_TooFewImpostorsRaises ==
    (last.op = "gen_batch"
         /\ \A seed \in Clusters : Cardinality(Foreign(seed)) < m - 1)
        => last.kind # "ok"

\* C11: a gen_batch call made before any update_clusters call (centroids
\* unallocated, reverse index empty) raises, returns no batch and leaves the
\* whole state as it was, whether or not update_losses was called before it.
C11_SampleBeforeRecluster ==
    [][(last'.op = "gen_batch" /\ centroids = None /\ cluster_assignments = None)
           => /\ last'.kind \in {"TypeError", "ValueError"}
              /\ UNCHANGED <<config, cluster_state, loss_state>>]_vars

\* a gen_batch call before any recluster but after a record call of a
\* positive loss: the seed is drawn by loss and the centroid lookup raises
C11_Witness ==
    /\ last.op = "gen_batch"
    /\ centroids = None /\ cluster_assignments = None
    /\ cluster_losses # None
    /\ last.kind = "TypeError" /\ last.line = 102

\* the class index of each of the m clusters of the returned batch
BatchClasses == [j \in 1 .. m |-> cluster_classes[last.clusters[j]]]

\* the label the returned batch carries for block j
BlockLabel(j) == last.labels[(j - 1) * d + 1]

\* the first block of the batch whose cluster has the class of block j
FirstSeen(j) ==
    CHOOSE f \in 1 .. j :
        /\ BatchClasses[f] = BatchClasses[j]
        /\ \A g \in 1 .. (f - 1) : BatchClasses[g] # BatchClasses[j]

\* C12: the labels of a returned batch are local class ids in first-seen
\* order over the m clusters: the seed block has 0, a block has as id the
\* number of distinct classes met before its class was first met, two blocks
\* have one label exactly when their clusters have one class, the labels are
\* exactly 0 .. (number of distinct classes - 1), and with 2 classes, k = 2,
\* m = 3, d = 2 they are [0,0,1,1,1,1] or [0,0,0,0,1,1].
C12_LocalClassIds ==
    Completed("gen_batch") =>
        /\ BlockLabel(1) = 0
        /\ \A j \in 1 .. m :
               BlockLabel(j) =
                   Cardinality({BatchClasses[g] : g \in 1 .. (FirstSeen(j) - 1)})
        /\ \A a, b \in 1 .. m :
               (BlockLabel(a) = BlockLabel(b)) <=> (BatchClasses[a] = BatchClasses[b])
        /\ Range(last.labels) =
               0 .. (Cardinality({BatchClasses[j] : j \in 1 .. m}) - 1)
        /\ (num_classes = 2 /\ k = 2 /\ m = 3 /\ d = 2) =>
               last.labels \in {<<0, 0, 1, 1, 1, 1>>, <<0, 0, 0, 0, 1, 1>>}

\* the batch of the example: 2 classes, k = 2, m = 3, d = 2, with a seed
\* cluster of class index 1, whose local id is 0
C12_Witness ==
    /\ Completed("gen_batch")
    /\ num_classes = 2 /\ k = 2 /\ m = 3 /\ d = 2
    /\ cluster_classes[last.clusters[1]] = 1
    /\ last.labels = <<0, 0, 1, 1, 1, 1>>

\* the clusters whose centroid is nearest to embedding x
Nearest(x) ==
    {c \in Clusters :
        \A c2 \in Clusters :
            (centroids[c] - x) * (centroids[c] - x)
                <= (centroids[c2] - x) * (centroids[c2] - x)}

\* no two clusters of different classes have the same centroid
ClassesApart ==
    \A c1, c2 \in Clusters :
        cluster_classes[c1] # cluster_classes[c2] => centroids[c1] # centroids[c2]

\* C13: predict gives every embedding the original label value of the class
\* of a cluster whose centroid is nearest to it, and when no two clusters of
\* different classes share a centroid, predict of the centroid of cluster c
\* is the label value of cluster_classes[c].
C13_PredictNearestCentroid ==
    Completed("predict") =>
        /\ \A p \in DOMAIN last.rep_data :
               \E c \in Nearest(last.rep_data[p]) :
                   last.preds[p] = unique_classes[cluster_classes[c]]
        /\ ClassesApart =>
               \A p \in DOMAIN last.rep_data : \A c \in Clusters :
                   last.rep_data[p] = centroids[c] =>
                       last.preds[p] = unique_classes[cluster_classes[c]]

\* predict of the centroid of the last cluster of the last class, the label
\* values not being in the order of the class indexes
C13_Witness ==
    /\ Completed("predict")
    /\ num_classes = 2 /\ k = 2
    /\ ClassesApart
    /\ cluster_assignments # None
    /\ last.rep_data[1] = centroids[3]
    /\ last.preds[1] = unique_classes[1]
    /\ labels[0] = unique_classes[1]

\* C14 as claimed: for a batch of one example per cluster (d = 1, so
\* N = m), the batch of a single example included, the variance step of
\* dml_loss does not divide by zero: the variance is a finite number.
C14_VarianceDivisorGuarded ==
    (Completed("minibatch_dml_loss") /\ d = 1) => last.variance[2] # 0

\* the squared distance from x to the nearest centroid of class index c
NearestOfClass(x, c) ==
    SetMin({(centroids[j] - x) * (centroids[j] - x) :
               j \in {j2 \in Clusters : cluster_classes[j2] = c}})

\* C15 as claimed: for a batch of gen_batch passed to minibatch_dml_loss
\* with the labels gen_batch returned, the intra-cluster cost of every
\* example is the least squared distance from it to the centroids of the
\* clusters of the example's true class, whichever cluster was the seed.
C15_IntraCostOfTrueClass ==
    Completed("minibatch_dml_loss") =>
        \A i \in DOMAIN last.r :
            last.intra_cluster_costs[i] =
                <<NearestOfClass(last.r[i], TrueClass(last.batch_indexes[i])), 1>>

\* C16 as claimed: the accuracy dml_loss returns is the fraction of the
\* examples of the batch for which the class of the cluster with the
\* nearest centroid (the arg-min of sample_costs) is the example's class.
C16_AccuracyByClass ==
    Completed("minibatch_dml_loss") =>
        last.acc =
            Frac(Cardinality({i \in DOMAIN last.r :
                                 cluster_classes[last.preds[i]]
                                     = TrueClass(last.batch_indexes[i])}),
                 Len(last.r))

\* the positions of block j (1 .. m) in a batch
Block(j) == ((j - 1) * d + 1) .. (j * d)

\* C17: in every returned batch, block 1 is drawn from the seed cluster and
\* block j from the (j-1)-th impostor: each of the d indices of a block is a
\* member of the block's cluster in the reverse index, also when the cluster
\* has fewer than d members, and the true class of each returned example is
\* the class of its block's cluster.
C17_BlocksFromTheirClusters ==
    Completed("gen_batch") =>
        \A j \in 1 .. m : \A p \in Block(j) :
            /\ last.batch_indexes[p] \in cluster_assignments[last.clusters[j]]
            /\ TrueClass(last.batch_indexes[p]) = cluster_classes[last.clusters[j]]

\* a batch of three blocks of two: the seed block holds two different
\* examples and the last impostor has a single member, drawn twice
C17_Witness ==
    /\ Completed("gen_batch")
    /\ m = 3 /\ d = 2
    /\ last.batch_indexes[1] # last.batch_indexes[2]
    /\ last.clusters[2] # last.clusters[3]
    /\ Cardinality(cluster_assignments[last.clusters[3]]) = 1
    /\ last.batch_indexes[5] = last.batch_indexes[6]

\* the clusters whose loss is above 0
PositiveLoss == {c \in Clusters : cluster_losses[c][1] > 0}

\* C18: once the cluster losses exist and one of them is above 0, the seed
\* of a returned batch never has loss 0 and the seeds gen_batch can draw are
\* exactly the clusters with a loss above 0; before the first record call
\* the seeds it can draw are all C*k clusters.
C18_SeedFollowsLossWeights ==
    /\ (Completed("gen_batch") /\ cluster_losses # None) =>
           last.clusters[1] \in PositiveLoss
    /\ (cluster_losses # None /\ PositiveLoss # {}) => SeedClusters = PositiveLoss
    /\ cluster_losses = None => SeedClusters = Clusters

\* a batch whose seed has a loss above 0, drawn while another cluster with
\* a loss above 0 and a cluster with members and loss 0 stood beside it
C18_Witness ==
    /\ Completed("gen_batch")
    /\ cluster_losses # None
    /\ last.clusters[1] \in PositiveLoss
    /\ PositiveLoss \ {last.clusters[1]} # {}
    /\ \E c \in Clusters \ PositiveLoss : cluster_assignments[c] # {}

\* C19: update_clusters, whether it completes or raises, leaves
\* example_losses, has_loss and cluster_losses as they were, unallocated
\* if they were unallocated; when it completes, the reverse index is
\* rebuilt from the new assignment alone.
C19_ReclusterKeepsLosses ==
    [][last'.op = "update_clusters" =>
          /\ example_losses' = example_losses
          /\ has_loss' = has_loss
          /\ cluster_losses' = cluster_losses
          /\ last'.kind = "ok" =>
                 \A c \in Clusters :
                     cluster_assignments'[c]
                         = {i \in Examples : assignments'[i] = c}]_vars

\* after a completed recluster: a cluster still carries a loss above 0 that
\* is no longer the mean of its members, so the assignment moved and the
\* loss stayed
C19_Witness ==
    /\ Completed("update_clusters")
    /\ cluster_losses # None
    /\ \E c \in Clusters : cluster_losses[c] # Zero /\ ~MeanMatches(c)

\* C20: gen_batch, whether it returns a batch or raises, leaves centroids,
\* assignments, cluster_assignments, cluster_classes, example_losses,
\* has_loss, cluster_losses, k, m, d and the labels as they were.
C20_SampleIsPureRead ==
    [][last'.op = "gen_batch" =>
          /\ centroids' = centroids
          /\ assignments' = assignments
          /\ cluster_assignments' = cluster_assignments
          /\ cluster_classes' = cluster_classes
          /\ example_losses' = example_losses
          /\ has_loss' = has_loss
          /\ cluster_losses' = cluster_losses
          /\ <<k, m, d>>' = <<k, m, d>>
          /\ <<labels, unique_classes, num_classes>>'
                 = <<labels, unique_classes, num_classes>>]_vars

\* a returned batch, drawn by loss, whose seed has a sibling cluster of its
\* class at another centroid: the sibling's distance was masked
C20_Witness ==
    /\ Completed("gen_batch")
    /\ cluster_losses # None
    /\ \E s \in Clusters \ {last.clusters[1]} :
           /\ cluster_classes[s] = cluster_classes[last.clusters[1]]
           /\ centroids[s] # centroids[last.clusters[1]]

====
